---- MODULE Spec2Model ----
(***************************************************************************)
(* A model of src/src/search-projects.tsx: the directory lister            *)
(* (getProjects), the query parsing, fuzzy filter and tier sort of         *)
(* Command, the listing hook with keepPreviousData, "Search in This        *)
(* Project" and the "Open in Editor" handler.                              *)
(*                                                                         *)
(* A string is a sequence of one-character strings, so that split, join,   *)
(* toLowerCase, startsWith, includes and the regular expression are        *)
(* computed character by character as the code computes them.  A path is   *)
(* a sequence of segments from the filesystem root.                        *)
(***************************************************************************)
EXTENDS Integers, Sequences, FiniteSets, TLC

VARIABLES
  query,             \* useState("") of Command: the search bar's text
  projects,          \* data of useCachedPromise: the listing that is shown
  sortedProjects,    \* data of useFrecencySorting: the ranked list
  filteredProjects,  \* the useMemo result: the displayed list
  calls,             \* listings in flight: records [id, dir]
  lastCallId,        \* the hook's id of the latest request
  selected,          \* the project "Search in This Project" was last invoked on
  superseded,        \* whether a result of an outdated listing was ignored
  disk,              \* getProjects' input: what readdirSync and statSync see
  outcome,           \* getProjects' result as its caller sees it
  handlers,          \* "Open in Editor" handlers: id -> [pc, project]
  events,            \* the side effects of the handlers, in order
  children,          \* spawned editor processes: id -> "none"|"running"|"exited"
  windowOpen         \* whether the picker's main window is open

vars == << query, projects, sortedProjects, filteredProjects, calls, lastCallId,
           selected, superseded, disk, outcome, handlers, events, children, windowOpen >>

-----------------------------------------------------------------------------
(* Bounds of the model *)

MaxProjects == 3    \* length of the ranked list handed to the filter
MaxTermLen == 2     \* length of the query typed against that list
MaxEntries == 3     \* entries of the directory getProjects reads
MaxQueryLen == 3    \* length of the query typed while navigating
MaxCalls == 3       \* listing requests issued in one navigation run
MaxOpens == 2       \* "Open in Editor" selections in one run

-----------------------------------------------------------------------------
(* Strings *)

Last(s) == s[Len(s)]

Front(s) == SubSeq(s, 1, Len(s) - 1)

SeqsUpTo(S, n) == UNION { [1..k -> S] : k \in 0..n }

\* String.prototype.toLowerCase, on the characters the model uses
ToLowerCaseChar(c) ==
  CASE c = "A" -> "a"
    [] c = "B" -> "b"
    [] OTHER -> c

ToLowerCase(s) == [i \in 1..Len(s) |-> ToLowerCaseChar(s[i])]

\* The Canonicalize step of a regular expression with the i flag (and no u
\* flag): a character is compared by its upper case
Canonicalize(c) ==
  CASE c = "a" -> "A"
    [] c = "b" -> "B"
    [] OTHER -> c

\* "." of a regular expression without the s flag matches every character
\* but the line terminators
LineTerminators == {"\n"}

\* String.prototype.startsWith
StartsWith(s, prefix) ==
  /\ Len(prefix) <= Len(s)
  /\ SubSeq(s, 1, Len(prefix)) = prefix

\* String.prototype.includes
Includes(s, sub) ==
  \E i \in 0..(Len(s) - Len(sub)) : SubSeq(s, i + 1, i + Len(sub)) = sub

\* String.prototype.split("/"): always at least one part
RECURSIVE Split(_)
Split(s) ==
  IF \A i \in 1..Len(s) : s[i] # "/"
    THEN << s >>
    ELSE LET i == CHOOSE k \in 1..Len(s) :
                    s[k] = "/" /\ \A j \in 1..(k - 1) : s[j] # "/"
         IN << SubSeq(s, 1, i - 1) >> \o Split(SubSeq(s, i + 1, Len(s)))

\* Array.prototype.join("/")
RECURSIVE JoinSlash(_)
JoinSlash(parts) ==
  IF Len(parts) = 0 THEN << >>
  ELSE IF Len(parts) = 1 THEN parts[1]
  ELSE parts[1] \o << "/" >> \o JoinSlash(Tail(parts))

-----------------------------------------------------------------------------
(* Query parsing of Command *)

Parts(q) == Split(q)

CurrentPath(q) ==
  IF Len(Parts(q)) > 1 THEN JoinSlash(Front(Parts(q))) ELSE << >>

SearchTermFirstPart(q) == Parts(q)[1]

SearchTerm(q) == Parts(q)[Len(Parts(q))]

-----------------------------------------------------------------------------
(* The regular expression of the filter *)

RegexSpecials == {".", "*", "+", "?", "^", "$", "{", "}", "(", ")", "|", "[", "]", "\\"}

EscapeNothing(x) == x

\* escapeRegex: every special character gets a backslash in front
escapeRegex(x) == IF x[1] \in RegexSpecials THEN << "\\" >> \o x ELSE x

\* [...searchTerm].map(escapeRegex).join(".*"): the source of the pattern
RECURSIVE PatternSource(_)
PatternSource(term) ==
  IF Len(term) = 0 THEN << >>
  ELSE IF Len(term) = 1 THEN escapeRegex(<< term[1] >>)
  ELSE escapeRegex(<< term[1] >>) \o << ".", "*" >> \o PatternSource(Tail(term))

\* new RegExp(source, "i"): the source parsed into atoms.  An escaped
\* character is a literal, "." is the wildcard, "*" repeats the atom before
\* it; every other character stands for itself.  (The other special
\* characters never reach the parser unescaped: the alphabets of the model
\* hold "." only.)
RECURSIVE ParseRegex(_)
ParseRegex(src) ==
  IF Len(src) = 0 THEN << >>
  ELSE
    LET escaped == src[1] = "\\" /\ Len(src) >= 2
        atom == IF escaped THEN [kind |-> "lit", ch |-> src[2]]
                ELSE IF src[1] = "." THEN [kind |-> "any", ch |-> "."]
                ELSE [kind |-> "lit", ch |-> src[1]]
        used == IF escaped THEN 2 ELSE 1
        star == Len(src) > used /\ src[used + 1] = "*"
        rest == SubSeq(src, used + (IF star THEN 2 ELSE 1), Len(src))
    IN << [atom |-> atom, star |-> star] >> \o ParseRegex(rest)

AtomMatches(atom, c) ==
  IF atom.kind = "any" THEN c \notin LineTerminators
  ELSE Canonicalize(atom.ch) = Canonicalize(c)

\* Whether the atoms from index k on match s starting at position i
\* (backtracking over the repetitions)
RECURSIVE MatchHere(_, _, _, _)
MatchHere(atoms, k, s, i) ==
  IF k > Len(atoms) THEN TRUE
  ELSE IF atoms[k].star
    THEN \/ MatchHere(atoms, k + 1, s, i)
         \/ /\ i <= Len(s)
            /\ AtomMatches(atoms[k].atom, s[i])
            /\ MatchHere(atoms, k, s, i + 1)
    ELSE /\ i <= Len(s)
         /\ AtomMatches(atoms[k].atom, s[i])
         /\ MatchHere(atoms, k + 1, s, i + 1)

\* RegExp.prototype.test: the pattern is not anchored
RegexTest(src, s) ==
  LET atoms == ParseRegex(src)
  IN \E i \in 1..(Len(s) + 1) : MatchHere(atoms, 1, s, i)

-----------------------------------------------------------------------------
(* Paths *)

\* path.normalize on the segments of an absolute path: empty segments and
\* "." are dropped, ".." removes the segment before it and is dropped at the
\* filesystem root
RECURSIVE NormalizeAbs(_, _)
NormalizeAbs(done, segs) ==
  IF Len(segs) = 0 THEN done
  ELSE LET seg == segs[1]
           next == IF seg = << >> \/ seg = << "." >> THEN done
                   ELSE IF seg = << ".", "." >>
                     THEN (IF Len(done) = 0 THEN done ELSE Front(done))
                   ELSE Append(done, seg)
       IN NormalizeAbs(next, Tail(segs))

\* path.normalize on the segments of a relative path: a leading ".." stays
RECURSIVE NormalizeRel(_, _)
NormalizeRel(done, segs) ==
  IF Len(segs) = 0 THEN done
  ELSE LET seg == segs[1]
           next == IF seg = << >> \/ seg = << "." >> THEN done
                   ELSE IF seg = << ".", "." >>
                     THEN (IF Len(done) = 0 \/ Last(done) = << ".", "." >>
                             THEN Append(done, seg) ELSE Front(done))
                   ELSE Append(done, seg)
       IN NormalizeRel(next, Tail(segs))

\* path.join(directory, rel) for an absolute directory (a sequence of
\* segments) and a string rel
Join(directory, rel) == NormalizeAbs(directory, Split(rel))

\* path.join(a, b) for two strings, as a string: absolute if a is
JoinStrings(a, b) ==
  LET segs == Split(a) \o Split(b)
  IN IF Len(a) > 0 /\ a[1] = "/"
       THEN << "/" >> \o JoinSlash(NormalizeAbs(<< >>, segs))
       ELSE JoinSlash(NormalizeRel(<< >>, segs))

\* preferences.projectsDirectory: the configured root, /h/r
projectsDirectory == << << "h" >>, << "r" >> >>

-----------------------------------------------------------------------------
(* getProjects *)

NodeModules == << "n", "o", "d", "e", "_", "m", "o", "d", "u", "l", "e", "s" >>

EXCLUDE_FOLDERS == { NodeModules }

\* The object getProjects maps a folder to
Project(directory, folder) ==
  [id |-> Join(directory, folder), name |-> folder, path |-> Join(directory, folder)]

Range(s) == { s[i] : i \in 1..Len(s) }

\* readdirSync(directory): the names of the entries, or an exception
ReaddirSync(d) ==
  [threw |-> ~d.readable,
   value |-> IF d.readable THEN [i \in 1..Len(d.entries) |-> d.entries[i].name]
             ELSE << >>]

\* statSync(join(directory, folder)): an exception for an entry that cannot
\* be stat'ed, else whether it is a directory
StatSync(d, folder) ==
  LET e == CHOOSE x \in Range(d.entries) : x.name = folder
  IN [threw |-> e.kind = "nostat", isDirectory |-> e.kind = "dir"]

KeepFolderNoCatch(d, folder) ==
  LET st == StatSync(d, folder)
  IN [threw |-> st.threw,
      value |-> /\ ~st.threw
                /\ st.isDirectory
                /\ ~StartsWith(folder, << "." >>)
                /\ folder \notin EXCLUDE_FOLDERS]

KeepFolderHidden(d, folder) ==
  LET st == StatSync(d, folder)
  IN IF st.threw THEN [threw |-> FALSE, value |-> FALSE]
     ELSE [threw |-> FALSE,
           value |-> st.isDirectory /\ folder \notin EXCLUDE_FOLDERS]

\* The callback of .filter: its own try/catch turns a failed stat into false
KeepFolder(d, folder) ==
  LET st == StatSync(d, folder)
  IN IF st.threw THEN [threw |-> FALSE, value |-> FALSE]
     ELSE [threw |-> FALSE,
           value |-> /\ st.isDirectory
                     /\ ~StartsWith(folder, << "." >>)
                     /\ folder \notin EXCLUDE_FOLDERS]

\* The body of the try block of getProjects: the kept folders as projects,
\* or the exception of readdirSync or of the callback
ListFolders(directory, d) ==
  LET rd == ReaddirSync(d)
      Kept(folder) == KeepFolder(d, folder).value
      folders == SelectSeq(rd.value, Kept)
      threw == rd.threw \/ \E i \in 1..Len(rd.value) : KeepFolder(d, rd.value[i]).threw
  IN [threw |-> threw,
      value |-> IF threw THEN << >>
                ELSE [i \in 1..Len(folders) |-> Project(directory, folders[i])]]

\* getProjects(directory) on the disk d: what the promise settles to.  The
\* catch logs the exception and returns [].
getProjects(directory, d) ==
  LET r == ListFolders(directory, d)
  IN IF r.threw THEN [rejected |-> FALSE, value |-> << >>]
     ELSE [rejected |-> FALSE, value |-> r.value]

-----------------------------------------------------------------------------
(* The filter and the sort of Command *)

CompareContainsFirstReversed(a, b, searchTerm) ==
  LET aName == ToLowerCase(a.name)
      bName == ToLowerCase(b.name)
      search == ToLowerCase(searchTerm)
  IN IF aName = search THEN (IF aName = bName THEN 0 ELSE -1)
     ELSE IF bName = search THEN 1
     ELSE (IF Includes(aName, search) THEN 1 ELSE 0)
          - (IF Includes(bName, search) THEN 1 ELSE 0)

CompareExactAlwaysFirst(a, b, searchTerm) ==
  LET aName == ToLowerCase(a.name)
      bName == ToLowerCase(b.name)
      search == ToLowerCase(searchTerm)
  IN IF aName = search THEN -1
     ELSE IF bName = search THEN 1
     ELSE (IF Includes(bName, search) THEN 1 ELSE 0)
          - (IF Includes(aName, search) THEN 1 ELSE 0)

\* The comparator handed to .sort
Compare(a, b, searchTerm) ==
  LET aName == ToLowerCase(a.name)
      bName == ToLowerCase(b.name)
      search == ToLowerCase(searchTerm)
  IN IF aName = search THEN (IF aName = bName THEN 0 ELSE -1)
     ELSE IF bName = search THEN 1
     ELSE (IF Includes(bName, search) THEN 1 ELSE 0)
          - (IF Includes(aName, search) THEN 1 ELSE 0)

\* ECMAScript's "consistent comparison function", for the table c of the
\* comparator's results on the values at the indices S
ConsistentTable(c, S) ==
  /\ \A a \in S : c[a, a] = 0
  /\ \A a, b \in S : /\ (c[a, b] = 0) = (c[b, a] = 0)
                     /\ (c[a, b] < 0) = (c[b, a] > 0)
  /\ \A a, b, x \in S :
       /\ (c[a, b] = 0 /\ c[b, x] = 0) => c[a, x] = 0
       /\ (c[a, b] < 0 /\ c[b, x] < 0) => c[a, x] < 0
       /\ (c[a, b] > 0 /\ c[b, x] > 0) => c[a, x] > 0

\* (@@ << >> makes TLC compute the table once)
ConsistentComparator(s, searchTerm) ==
  ConsistentTable([a \in 1..Len(s), b \in 1..Len(s) |-> Compare(s[a], s[b], searchTerm)]
                    @@ << >>,
                  1..Len(s))

\* x inserted into the sorted sequence s after every element it does not
\* come before
RECURSIVE Insert(_, _, _)
Insert(s, x, searchTerm) ==
  IF Len(s) = 0 THEN << x >>
  ELSE IF Compare(Last(s), x, searchTerm) <= 0 THEN Append(s, x)
  ELSE Append(Insert(Front(s), x, searchTerm), Last(s))

RECURSIVE StableSort(_, _)
StableSort(s, searchTerm) ==
  IF Len(s) = 0 THEN << >>
  ELSE Insert(StableSort(Front(s), searchTerm), Last(s), searchTerm)

Orderings(s) == { t \in [1..Len(s) -> Range(s)] : Range(t) = Range(s) }

\* Array.prototype.sort: stable for a consistent comparator; for an
\* inconsistent one the order is implementation-defined
SortOutcomes(s, searchTerm) ==
  IF ConsistentComparator(s, searchTerm) THEN { StableSort(s, searchTerm) }
  ELSE Orderings(s)

\* searchRgx.test(item.name) of the .filter
Passes(searchTerm, item) == RegexTest(PatternSource(searchTerm), item.name)

\* The values the useMemo of filteredProjects may take
FilterOutcomes(searchTerm, ranked) ==
  LET Keep(item) == Passes(searchTerm, item)
  IN SortOutcomes(SelectSeq(ranked, Keep), searchTerm)

\* useFrecencySorting: the projects in the order of the frecency store,
\* which the model leaves open
RankOutcomes(ps) == Orderings(ps)

-----------------------------------------------------------------------------
(* Values of the variables a specification does not use *)

None == [id |-> << >>, name |-> << >>, path |-> << >>]

NoDisk == [readable |-> FALSE, entries |-> << >>]

NotCalled == [called |-> FALSE, rejected |-> FALSE, value |-> << >>]

uiVars == << query, projects, sortedProjects, filteredProjects >>

hookVars == << calls, lastCallId, selected, superseded >>

listVars == << disk, outcome >>

openVars == << handlers, events, children, windowOpen >>

HookIdle == calls = {} /\ lastCallId = 0 /\ selected = None /\ superseded = FALSE

ListIdle == disk = NoDisk /\ outcome = NotCalled

OpenIdle ==
  /\ handlers = << >>
  /\ events = << >>
  /\ children = << >>
  /\ windowOpen = TRUE

-----------------------------------------------------------------------------
(* The filter on a ranked list: the search bar is typed into while the      *)
(* listing and the sorter hold some list of projects of the root, in some  *)
(* order of the frecency store.                                            *)

\* The folder names the ranked list is drawn from, in readdir order: two
\* that differ by case only, names with a regex-special character, a name
\* with a line terminator
DirNames ==
  << << "A", "b" >>, << "a", ".", "b" >>, << "a", "\n", "b" >>, << "a", "b" >>,
     << "a", "b", "a" >>, << "b", "a" >> >>

\* The characters typed into the search bar
TermChars == { "a", "A", "b", ".", "/" }

\* The entries of s at the indices of I, in the order of s
Pick(s, I) ==
  LET InI(i) == i \in I
      idx == SelectSeq([i \in 1..Len(s) |-> i], InI)
  IN [k \in 1..Len(idx) |-> s[idx[k]]]

Listings ==
  { Pick([i \in 1..Len(DirNames) |-> Project(projectsDirectory, DirNames[i])], I) :
      I \in { J \in SUBSET (1..Len(DirNames)) : Cardinality(J) <= MaxProjects } }

FilterInit ==
  /\ query = << >>
  /\ projects \in Listings
  /\ sortedProjects \in RankOutcomes(projects)
  /\ filteredProjects \in FilterOutcomes(SearchTerm(query), sortedProjects)
  /\ HookIdle /\ ListIdle /\ OpenIdle

\* onSearchTextChange={setQuery} for a typed character, and the render after
\* it: the useMemo recomputes the displayed list
TypeChar(c) ==
  /\ Len(query) < MaxTermLen
  /\ query' = Append(query, c)
  /\ filteredProjects' \in FilterOutcomes(SearchTerm(query'), sortedProjects)
  /\ UNCHANGED << projects, sortedProjects, hookVars, listVars, openVars >>

\* onSearchTextChange={setQuery} for a deleted character
DeleteChar ==
  /\ Len(query) > 0
  /\ query' = Front(query)
  /\ filteredProjects' \in FilterOutcomes(SearchTerm(query'), sortedProjects)
  /\ UNCHANGED << projects, sortedProjects, hookVars, listVars, openVars >>

FilterNext == (\E c \in TermChars : TypeChar(c)) \/ DeleteChar

SpecFilter == FilterInit /\ [][FilterNext]_vars

-----------------------------------------------------------------------------
(* Properties of the filter and the sort *)

\* Whether the characters of q occur in n in the same order
RECURSIVE IsSubsequence(_, _)
IsSubsequence(q, n) ==
  IF Len(q) = 0 THEN TRUE
  ELSE IF Len(n) = 0 THEN FALSE
  ELSE IF q[1] = n[1] THEN IsSubsequence(Tail(q), Tail(n))
  ELSE IsSubsequence(q, Tail(n))

\* The part of the query after the last "/"
TermOf(q) ==
  LET slashes == { i \in 1..Len(q) : q[i] = "/" }
      from == IF slashes = {} THEN 1
              ELSE 1 + CHOOSE i \in slashes : \A j \in slashes : j <= i
  IN SubSeq(q, from, Len(q))

\* 0: the name equals the term, 1: it contains the term, 2: neither; all
\* three without regard to case
Tier(p, term) ==
  IF ToLowerCase(p.name) = ToLowerCase(term) THEN 0
  ELSE IF Includes(ToLowerCase(p.name), ToLowerCase(term)) THEN 1
  ELSE 2

IndexIn(s, x) == CHOOSE i \in 1..Len(s) : s[i] = x

\* C1: a project of the ranked list is displayed if and only if the
\* characters of the search term occur in its name in the same order,
\* without regard to case, with any text between them, a regex-special
\* character of the term standing for itself.
C1_FilterIsSubsequenceMatch ==
  \A i \in 1..Len(sortedProjects) :
    (sortedProjects[i] \in Range(filteredProjects))
      <=> IsSubsequence(ToLowerCase(TermOf(query)),
                        ToLowerCase(sortedProjects[i].name))

\* C2: the displayed list is ordered by tier: the names equal to the term
\* first, then the names that contain it, then the others.
C2_TierOrder ==
  \A i, j \in 1..Len(filteredProjects) :
    i < j => Tier(filteredProjects[i], TermOf(query))
               <= Tier(filteredProjects[j], TermOf(query))

\* C2's case: all three tiers are displayed, and the ranked list held them
\* in the opposite order.
C2_Witness ==
  /\ Len(filteredProjects) = 3
  /\ \A i \in 1..3 : Tier(filteredProjects[i], TermOf(query)) = i - 1
  /\ sortedProjects = << filteredProjects[3], filteredProjects[2], filteredProjects[1] >>

\* C3: with an empty search term (the query is empty or ends with "/") the
\* displayed list is the ranked list: same elements, same order.
C3_EmptyTermShowsRankedList ==
  (query = << >> \/ Last(query) = "/") => filteredProjects = sortedProjects

\* C3's case: a query that ends with "/" after a directory name, over a
\* ranked list of several projects.
C3_Witness ==
  /\ Len(query) >= 2
  /\ Last(query) = "/"
  /\ Len(sortedProjects) >= 2
  /\ filteredProjects = sortedProjects

\* C9: the comparator is antisymmetric and transitive on the displayed
\* entries, the displayed order is determined by the ranked list and the
\* term, and two entries of one tier keep the order of the ranked list.
C9_ConsistentAndStable ==
  LET term == TermOf(query)
      f == filteredProjects
      c(a, b) == Compare(a, b, SearchTerm(query))
  IN /\ \A a, b \in Range(f) : /\ (c(a, b) < 0) = (c(b, a) > 0)
                               /\ (c(a, b) = 0) = (c(b, a) = 0)
     /\ \A a, b, x \in Range(f) : (c(a, b) <= 0 /\ c(b, x) <= 0) => c(a, x) <= 0
     /\ Cardinality(FilterOutcomes(SearchTerm(query), sortedProjects)) = 1
     /\ \A i, j \in 1..Len(f) :
          (i < j /\ Tier(f[i], term) = Tier(f[j], term))
            => IndexIn(sortedProjects, f[i]) < IndexIn(sortedProjects, f[j])

\* C9's case: the sort moved an entry of a later tier behind two entries
\* of one tier, which kept their order.
C9_Witness ==
  /\ Len(filteredProjects) = 3
  /\ Len(TermOf(query)) > 0
  /\ Tier(filteredProjects[1], TermOf(query)) = Tier(filteredProjects[2], TermOf(query))
  /\ Tier(filteredProjects[2], TermOf(query)) < Tier(filteredProjects[3], TermOf(query))
  /\ sortedProjects = << filteredProjects[3], filteredProjects[1], filteredProjects[2] >>

-----------------------------------------------------------------------------
(* getProjects on a directory of the disk *)

\* The entry names of the directory that is read
EntryNames ==
  { << ".", "g", "i", "t" >>, NodeModules, << "n", "o", "d", "e" >>, << "a" >>, << "b" >> }

\* "dir": a directory (or a link to one), "file": anything else that can be
\* stat'ed, "nostat": statSync throws (a dangling link, no permission)
EntryKinds == { "dir", "file", "nostat" }

Entries ==
  { e \in SeqsUpTo([name : EntryNames, kind : EntryKinds], MaxEntries) :
      \A i, j \in 1..Len(e) : i # j => e[i].name # e[j].name }

Disks == [readable : BOOLEAN, entries : Entries]

ListInit ==
  /\ disk \in Disks
  /\ outcome = NotCalled
  /\ query = << >>
  /\ projects = << >>
  /\ sortedProjects = << >>
  /\ filteredProjects = << >>
  /\ HookIdle /\ OpenIdle

\* getProjects(directory) is called and its promise settles
CallGetProjects ==
  /\ ~outcome.called
  /\ outcome' = [called |-> TRUE,
                 rejected |-> getProjects(projectsDirectory, disk).rejected,
                 value |-> getProjects(projectsDirectory, disk).value]
  /\ UNCHANGED << disk, uiVars, hookVars, openVars >>

ListNext == CallGetProjects

SpecList == ListInit /\ [][ListNext]_vars

\* An entry that is a directory, is not hidden and is not excluded
Qualifies(e) ==
  /\ e.kind = "dir"
  /\ e.name[1] # "."
  /\ e.name # NodeModules

\* C4: getProjects returns an entry only if it is a directory, its name
\* does not start with "." and is not node_modules; every such entry of a
\* directory that was read is returned exactly once, with id equal to path.
C4_OnlyAndAllQualifyingFolders ==
  outcome.called =>
    /\ \A i \in 1..Len(outcome.value) :
         /\ \E e \in Range(disk.entries) :
              e.name = outcome.value[i].name /\ Qualifies(e)
         /\ outcome.value[i].name \notin { << ".", "g", "i", "t" >>, NodeModules }
         /\ outcome.value[i].id = outcome.value[i].path
         /\ outcome.value[i].path = Append(projectsDirectory, outcome.value[i].name)
    /\ disk.readable =>
         \A e \in Range(disk.entries) :
           Qualifies(e) =>
             Cardinality({ i \in 1..Len(outcome.value) : outcome.value[i].name = e.name }) = 1

\* C4's case: a directory with .git, node_modules and one more folder was
\* listed, and only that folder was returned.
C4_Witness ==
  /\ outcome.called
  /\ disk.readable
  /\ [name |-> << ".", "g", "i", "t" >>, kind |-> "dir"] \in Range(disk.entries)
  /\ [name |-> NodeModules, kind |-> "dir"] \in Range(disk.entries)
  /\ Len(outcome.value) = 1

\* C5: getProjects never fails to its caller; when the directory cannot be
\* read it returns the empty list; when the stat of an entry fails that entry
\* is left out and every other qualifying entry is still returned.
C5_NeverFails ==
  outcome.called =>
    /\ ~outcome.rejected
    /\ ~disk.readable => outcome.value = << >>
    /\ disk.readable =>
         \A e \in Range(disk.entries) :
           /\ e.kind = "nostat" =>
                \A i \in 1..Len(outcome.value) : outcome.value[i].name # e.name
           /\ Qualifies(e) =>
                \E i \in 1..Len(outcome.value) : outcome.value[i].name = e.name

\* C5's case: the stat of one entry failed and another entry was returned.
C5_Witness ==
  /\ outcome.called
  /\ disk.readable
  /\ \E e \in Range(disk.entries) : e.kind = "nostat"
  /\ Len(outcome.value) >= 1

-----------------------------------------------------------------------------
(* Navigation: the query is edited, the listing hook lists the directory   *)
(* the query designates, and "Search in This Project" rewrites the query.  *)

Dir(names) ==
  [readable |-> TRUE,
   entries |-> [i \in 1..Len(names) |-> [name |-> names[i], kind |-> "dir"]]]

\* The disk: /h holds the configured root r and a folder b beside it
Disk(directory) ==
  CASE directory = << >> -> Dir(<< << "h" >> >>)
    [] directory = << << "h" >> >> -> Dir(<< << "b" >>, << "r" >> >>)
    [] directory = << << "h" >>, << "b" >> >> -> Dir(<< << "a" >> >>)
    [] directory = << << "h" >>, << "r" >> >> -> Dir(<< << "a" >>, << "b" >> >>)
    [] directory = << << "h" >>, << "r" >>, << "a" >> >> -> Dir(<< << "b" >> >>)
    [] directory = << << "h" >>, << "r" >>, << "b" >> >> -> Dir(<< >>)
    [] OTHER -> NoDisk

\* The characters typed into the search bar while navigating
NavChars == { "a", "b", ".", "/" }

ListingArgsRootOnly(q) == projectsDirectory

\* The argument of the listing hook: join(preferences.projectsDirectory,
\* currentPath)
ListingArgs(q) == Join(projectsDirectory, CurrentPath(q))

\* useCachedPromise((dir) => getProjects(dir), [dir]): a request for dir.
\* getProjects has no await, so it reads the disk when it is called; its
\* promise settles later.
Request(id, dir) == [id |-> id, dir |-> dir, value |-> getProjects(dir, Disk(dir)).value]

NavInit ==
  /\ query = << >>
  /\ projects = << >>
  /\ sortedProjects = << >>
  /\ filteredProjects = << >>
  /\ lastCallId = 1
  /\ calls = { Request(1, ListingArgs(<< >>)) }
  /\ selected = None
  /\ superseded = FALSE
  /\ ListIdle /\ OpenIdle

\* setQuery(text) and the render after it: a changed argument starts a new
\* listing, keepPreviousData keeps the shown listing until it settles, and
\* the useMemo recomputes the displayed list for the new search term
SetQuery(text) ==
  /\ query' = text
  /\ IF ListingArgs(text) # ListingArgs(query)
       THEN /\ lastCallId < MaxCalls
            /\ lastCallId' = lastCallId + 1
            /\ calls' = calls \cup { Request(lastCallId + 1, ListingArgs(text)) }
       ELSE UNCHANGED << calls, lastCallId >>
  /\ filteredProjects' \in FilterOutcomes(SearchTerm(text), sortedProjects)
  /\ UNCHANGED << projects, sortedProjects, superseded, listVars, openVars >>

\* onSearchTextChange for a typed character
NavType(c) ==
  /\ Len(query) < MaxQueryLen
  /\ SetQuery(Append(query, c))
  /\ selected' = None

\* onSearchTextChange for a deleted character
NavDelete ==
  /\ Len(query) > 0
  /\ SetQuery(Front(query))
  /\ selected' = None

\* onSearchTextChange for a cleared search bar
NavClear ==
  /\ Len(query) > 1
  /\ SetQuery(<< >>)
  /\ selected' = None

\* searchInProject of the i-th displayed item:
\* setQuery(`${join(currentPath, project.name)}/`)
SearchInProject(i) ==
  /\ i \in 1..Len(filteredProjects)
  /\ SetQuery(JoinStrings(CurrentPath(query), filteredProjects[i].name) \o << "/" >>)
  /\ selected' = filteredProjects[i]

\* The promise of a listing settles: the hook takes the result of the
\* latest request only; the sorter ranks the new listing and the useMemo
\* recomputes the displayed list
Settle(c) ==
  /\ c \in calls
  /\ calls' = calls \ { c }
  /\ IF c.id = lastCallId
       THEN /\ projects' = c.value
            /\ sortedProjects' \in RankOutcomes(c.value)
            /\ filteredProjects' \in FilterOutcomes(SearchTerm(query), sortedProjects')
            /\ UNCHANGED superseded
       ELSE /\ superseded' = TRUE
            /\ UNCHANGED << projects, sortedProjects, filteredProjects >>
  /\ UNCHANGED << query, lastCallId, selected, listVars, openVars >>

NavNext ==
  \/ \E c \in NavChars : NavType(c)
  \/ NavDelete
  \/ NavClear
  \/ \E i \in 1..MaxProjects : SearchInProject(i)
  \/ \E c \in calls : Settle(c)

SpecNav == NavInit /\ [][NavNext]_vars

IsUnder(path, directory) ==
  /\ Len(path) >= Len(directory)
  /\ SubSeq(path, 1, Len(directory)) = directory

\* C6: after "Search in This Project" on a displayed project, the directory
\* listed next is the project's path and the search term is empty.
C6_DescendsIntoSelected ==
  selected # None =>
    /\ Join(projectsDirectory, CurrentPath(query)) = selected.path
    /\ TermOf(query) = << >>

\* C8: once no listing is in flight, every displayed project is an
\* immediate child of the directory the current query designates.
C8_LatestListingShown ==
  calls = {} =>
    \A i \in 1..Len(filteredProjects) :
      /\ Len(filteredProjects[i].path) > 0
      /\ Front(filteredProjects[i].path) = Join(projectsDirectory, CurrentPath(query))

\* C8's case: the result of an outdated listing was ignored, and the
\* listing of a subdirectory is displayed with nothing in flight.
C8_Witness ==
  /\ calls = {}
  /\ superseded
  /\ Len(CurrentPath(query)) > 0
  /\ Len(filteredProjects) > 0

\* C10: the directory that is listed is the configured root or lies under
\* it, and so does every displayed project.
C10_StaysUnderRoot ==
  /\ IsUnder(Join(projectsDirectory, CurrentPath(query)), projectsDirectory)
  /\ \A i \in 1..Len(filteredProjects) :
       IsUnder(filteredProjects[i].path, projectsDirectory)

-----------------------------------------------------------------------------
(* "Open in Editor" on the displayed projects of the root *)

Event(h, op, cmd, args) == [handler |-> h, op |-> op, cmd |-> cmd, args |-> args]

OpenInit ==
  /\ query = << >>
  /\ projects = getProjects(projectsDirectory, Disk(projectsDirectory)).value
  /\ sortedProjects \in RankOutcomes(projects)
  /\ filteredProjects \in FilterOutcomes(SearchTerm(query), sortedProjects)
  /\ handlers = << >>
  /\ events = << >>
  /\ children = << >>
  /\ windowOpen = TRUE
  /\ HookIdle /\ ListIdle

OpenInEditorNoAwait(i) ==
  /\ windowOpen
  /\ Len(handlers) < MaxOpens
  /\ i \in 1..Len(filteredProjects)
  /\ LET h == Len(handlers) + 1
         project == filteredProjects[i]
     IN /\ handlers' = Append(handlers, [pc |-> "done", project |-> project])
        /\ events' = events \o << Event(h, "visitItem", "", << project.path >>),
                                  Event(h, "shellEnv", "", << >>),
                                  Event(h, "spawn", "e", << project.path >>),
                                  Event(h, "closeMainWindow", "", << >>) >>
        /\ children' = Append(children, "running")
        /\ windowOpen' = FALSE
  /\ sortedProjects' \in RankOutcomes(projects)
  /\ filteredProjects' \in FilterOutcomes(SearchTerm(query), sortedProjects')
  /\ UNCHANGED << query, projects, hookVars, listVars >>

\* onAction of "Open in Editor" on the i-th displayed item, up to its
\* await: visitItem(project), which lets the sorter rank anew, and the call
\* of shellEnv()
OpenInEditor(i) ==
  /\ windowOpen
  /\ Len(handlers) < MaxOpens
  /\ i \in 1..Len(filteredProjects)
  /\ LET h == Len(handlers) + 1
         project == filteredProjects[i]
     IN /\ handlers' = Append(handlers, [pc |-> "awaitEnv", project |-> project])
        /\ events' = events \o << Event(h, "visitItem", "", << project.path >>),
                                  Event(h, "shellEnv", "", << >>) >>
        /\ children' = Append(children, "none")
  /\ sortedProjects' \in RankOutcomes(projects)
  /\ filteredProjects' \in FilterOutcomes(SearchTerm(query), sortedProjects')
  /\ UNCHANGED << query, projects, windowOpen, hookVars, listVars >>

\* The promise of shellEnv() is fulfilled and the handler runs to its end:
\* spawn("e", [project.path], ...), then closeMainWindow()
EnvResolves(h) ==
  /\ h \in 1..Len(handlers)
  /\ handlers[h].pc = "awaitEnv"
  /\ handlers' = [handlers EXCEPT ![h].pc = "done"]
  /\ events' = events \o << Event(h, "env", "", << >>),
                            Event(h, "spawn", "e", << handlers[h].project.path >>),
                            Event(h, "closeMainWindow", "", << >>) >>
  /\ children' = [children EXCEPT ![h] = "running"]
  /\ windowOpen' = FALSE
  /\ UNCHANGED << uiVars, hookVars, listVars >>

\* The promise of shellEnv() is rejected: the handler ends with an
\* unhandled rejection
EnvRejects(h) ==
  /\ h \in 1..Len(handlers)
  /\ handlers[h].pc = "awaitEnv"
  /\ handlers' = [handlers EXCEPT ![h].pc = "rejected"]
  /\ UNCHANGED << events, children, windowOpen, uiVars, hookVars, listVars >>

\* The editor process ends, by exiting or by failing to start (its "error"
\* event); no code of the picker observes it
ChildEnds(h, how) ==
  /\ h \in 1..Len(children)
  /\ children[h] = "running"
  /\ children' = [children EXCEPT ![h] = how]
  /\ UNCHANGED << handlers, events, windowOpen, uiVars, hookVars, listVars >>

OpenNext ==
  \/ \E i \in 1..MaxProjects : OpenInEditor(i)
  \/ \E h \in 1..MaxOpens : EnvResolves(h)
  \/ \E h \in 1..MaxOpens : EnvRejects(h)
  \/ \E h \in 1..MaxOpens, how \in { "exited", "error" } : ChildEnds(h, how)

SpecOpen == OpenInit /\ [][OpenNext]_vars

\* The events of handler h, in order
EventsOf(h) ==
  LET Mine(e) == e.handler = h
  IN SelectSeq(events, Mine)

\* The steps of a selection of the project at path, in the order of the
\* claim
OpenSteps(h, path) ==
  << Event(h, "visitItem", "", << path >>),
     Event(h, "shellEnv", "", << >>),
     Event(h, "env", "", << >>),
     Event(h, "spawn", "e", << path >>),
     Event(h, "closeMainWindow", "", << >>) >>

\* C7: for each selection the visit is recorded first, then the shell
\* environment is resolved, then "e" is spawned once with the project's
\* path as its only argument, then the window is closed; neither the spawn
\* nor the close happens before the environment is resolved, and the
\* handler is finished whatever the spawned process does.
C7_OpenOrder ==
  \A h \in 1..Len(handlers) :
    LET steps == OpenSteps(h, handlers[h].project.path)
    IN /\ handlers[h].pc \in { "awaitEnv", "rejected" }
            => EventsOf(h) = SubSeq(steps, 1, 2) /\ children[h] = "none"
       /\ handlers[h].pc = "done"
            => EventsOf(h) = steps /\ children[h] # "none"
       /\ handlers[h].pc \in { "awaitEnv", "rejected", "done" }

\* C7's case: two selections were made before the environment of the first
\* was resolved; both have spawned and closed, and an editor still runs.
C7_Witness ==
  /\ Len(handlers) = 2
  /\ \A h \in 1..2 : handlers[h].pc = "done"
  /\ events[3].op = "visitItem"
  /\ \E h \in 1..2 : children[h] = "running"
  /\ ~windowOpen

====
